---- MODULE Spec2Model ----
(***************************************************************************)
(* Condor2Nav path-addressed file I/O: DirectoryCreate, FileExists and     *)
(* FilePathSplit of tools.cpp and the CIStream constructor of istream.cpp. *)
(*                                                                         *)
(* A path is a sequence of one-character strings.  C++ positions are       *)
(* 0-based; the sequence index of position i is i + 1.  The local file     *)
(* system is a set of directory locations and a map from file locations to *)
(* their bytes; a location is the sequence of the components of a path,    *)
(* resolved against the working directory.                                 *)
(***************************************************************************)
EXTENDS Integers, Sequences, FiniteSets, TLC

VARIABLES
  path,     \* the path string the caller passes to the operations
  cwd,      \* process working directory (a location)
  dirs,     \* existing local directories (locations)
  files,    \* existing local files: location -> contents
  denied,   \* locations for which CreateDirectory reports ERROR_ACCESS_DENIED
  devDirs,  \* directories existing on the ActiveSync device
  last,     \* the operation executed last, its backend calls and its result
  pre,      \* cwd, dirs and devDirs immediately before the last operation
  prevOk    \* the operation before the last was a DirectoryCreate that returned

vars == <<path, cwd, dirs, files, denied, devDirs, last, pre, prevOk>>

----------------------------------------------------------------------------
(* Bounds and alphabet *)

MaxLen == 6
MaxDepth == 2

BS == "\\"
FS == "/"
NUL == "NUL"
Alphabet == {BS, FS, "a"}
Paths == UNION {[1..n -> Alphabet] : n \in 0..MaxLen}

----------------------------------------------------------------------------
(* std::string primitives *)

\* std::string::npos is the largest size_t, i.e. -1 modulo 2^w: npos + 1 = 0.
npos == -1

Min(S) == CHOOSE x \in S : \A y \in S : x <= y
Max(S) == CHOOSE x \in S : \A y \in S : x >= y

\* dirName[i] on a const string: the character, or charT() at i = size().
At(s, i) == IF i < Len(s) THEN s[i + 1] ELSE NUL

\* s.find_first_of("/\\", from)
FindFirstOf(s, from) ==
  LET hits == {i \in 0..(Len(s) - 1) : i >= from /\ s[i + 1] \in {FS, BS}}
  IN IF from = npos \/ hits = {} THEN npos ELSE Min(hits)

\* s.find_last_of('\\')
FindLastOf(s) ==
  LET hits == {i \in 0..(Len(s) - 1) : s[i + 1] = BS}
  IN IF hits = {} THEN npos ELSE Max(hits)

\* s.substr(off, count) / std::string(s, off, count); count = npos: to the end.
Substr(s, off, count) ==
  IF off >= Len(s) THEN <<>>
  ELSE IF count = npos \/ off + count >= Len(s) THEN SubSeq(s, off + 1, Len(s))
  ELSE SubSeq(s, off + 1, off + count)

----------------------------------------------------------------------------
(* The local file system behind ::CreateDirectory, SetCurrentDirectory and   *)
(* std::ifstream.  Both separators split a name into components; two leading *)
(* separators name a network location, one the root of the current drive,   *)
(* none a name relative to the working directory.                           *)

IsSep(c) == c \in {FS, BS}

RECURSIVE Components(_)
Components(s) ==
  IF s = <<>> THEN <<>>
  ELSE IF IsSep(Head(s)) THEN Components(Tail(s))
  ELSE LET stop == FindFirstOf(s, 0)
           n == IF stop = npos THEN Len(s) ELSE stop
       IN <<SubSeq(s, 1, n)>> \o Components(SubSeq(s, n + 1, Len(s)))

Root == <<>>
UNC == <<BS, BS>>
IsUNC(loc) == loc # <<>> /\ Head(loc) = UNC
Parent(loc) == SubSeq(loc, 1, Len(loc) - 1)

Resolve(s, wd) ==
  IF IsSep(At(s, 0)) /\ IsSep(At(s, 1)) THEN <<UNC>> \o Components(s)
  ELSE IF IsSep(At(s, 0)) THEN Components(s)
  ELSE wd \o Components(s)

\* GetLastError() after ::CreateDirectory(subDir, 0); ERROR_SUCCESS when it
\* returned nonzero.  Machine and share roots of a network path are not
\* directories that can be made.
CreateDirectoryError(subDir, wd, ds, fl, dn) ==
  LET loc == Resolve(subDir, wd) IN
  IF subDir = <<>> THEN "ERROR_PATH_NOT_FOUND"
  ELSE IF loc \in dn THEN "ERROR_ACCESS_DENIED"
  ELSE IF loc \in ds \/ loc \in DOMAIN fl THEN "ERROR_ALREADY_EXISTS"
  ELSE IF loc = Root \/ Parent(loc) \notin ds THEN "ERROR_PATH_NOT_FOUND"
  ELSE IF IsUNC(loc) /\ Len(loc) <= 3 THEN "ERROR_PATH_NOT_FOUND"
  ELSE "ERROR_SUCCESS"

\* std::ifstream file(name); file.is_open(): a regular file is there.  A
\* directory, an empty name and a name ending in a separator do not open.
IfstreamOpens(name, wd, ds, fl) ==
  /\ name # <<>>
  /\ ~IsSep(name[Len(name)])
  /\ Resolve(name, wd) \notin ds
  /\ Resolve(name, wd) \in DOMAIN fl

\* SetCurrentDirectory(dir): the new working directory; unchanged if dir is
\* not an existing directory (the call fails, its result is not looked at).
SetCurrentDirectory(dir, wd, ds) ==
  IF dir # <<>> /\ Resolve(dir, wd) \in ds THEN Resolve(dir, wd) ELSE wd

----------------------------------------------------------------------------
(* The ActiveSync channel, known to this code by its three operations only. *)

DevFiles == {<<<<"a", "a">>>>}
DevContents == <<9>>

\* CActiveSync::DirectoryCreate: an existing directory is not an error.
ChannelDirectoryCreate(subDir, dd) ==
  LET loc == Components(subDir) IN
  IF loc \in dd THEN "exists"
  ELSE IF loc # Root /\ Parent(loc) \in dd /\ loc \notin DevFiles THEN "created"
  ELSE "error"

ChannelFileExists(fileName) == Components(fileName) \in DevFiles

ChannelRead(fileName) ==
  IF Components(fileName) \in DevFiles
  THEN [ok |-> TRUE, bytes |-> DevContents]
  ELSE [ok |-> FALSE, bytes |-> <<>>]

----------------------------------------------------------------------------
(* condor2nav::DirectoryCreate *)

\* tools.cpp:150-152 and 200-202: the path goes to the ActiveSync channel.
IsActiveSync(name) == Len(name) > 2 /\ At(name, 0) = BS /\ At(name, 1) # BS

\* tools.cpp:157-169: the position at which the walk cuts next, from pos.
NextCut(dirName, pos) ==
  LET found == FindFirstOf(dirName, pos) IN
  IF found = 0
  THEN IF At(dirName, 1) = BS
       THEN FindFirstOf(dirName, FindFirstOf(dirName, 2) + 1)
       ELSE FindFirstOf(dirName, 1)
  ELSE found

\* Variant of SubDirAt that keeps the separator found at the cut.
SubDirThroughSeparator(dirName, cut) ==
  IF cut = npos THEN Substr(dirName, 0, npos) ELSE Substr(dirName, 0, cut + 1)

\* tools.cpp:170: std::string subDir(dirName, 0, pos).
SubDirAt(dirName, cut) == Substr(dirName, 0, cut)

\* Variants of Throws: one without the ERROR_ALREADY_EXISTS exemption, one
\* that lets every failure but ERROR_ACCESS_DENIED pass.
ThrowsOnAnyFailure(error) == error # "ERROR_SUCCESS"
ThrowsOnlyWhenDenied(error) == error = "ERROR_ACCESS_DENIED"

\* tools.cpp:178: the failures of ::CreateDirectory that throw.
Throws(error) == error # "ERROR_SUCCESS" /\ error # "ERROR_ALREADY_EXISTS"

\* One pass of the loop body, then the rest of the loop.  st carries the
\* backends, the calls made so far and EOperationFailed's subDir once thrown.
RECURSIVE WalkFrom(_, _, _, _, _, _)
WalkFrom(dirName, pos, wd, fl, dn, st) ==
  LET cut == NextCut(dirName, pos)
      subDir == SubDirAt(dirName, cut)
      remote == ChannelDirectoryCreate(subDir, st.devDirs)
      error == CreateDirectoryError(subDir, wd, st.dirs, fl, dn)
      call == IF IsActiveSync(dirName)
              THEN [backend |-> "remote", arg |-> subDir, outcome |-> remote]
              ELSE [backend |-> "local", arg |-> subDir, outcome |-> error]
      failed == IF IsActiveSync(dirName) THEN remote = "error" ELSE Throws(error)
      next == [dirs |-> IF ~IsActiveSync(dirName) /\ error = "ERROR_SUCCESS"
                        THEN st.dirs \cup {Resolve(subDir, wd)} ELSE st.dirs,
               devDirs |-> IF IsActiveSync(dirName) /\ remote = "created"
                           THEN st.devDirs \cup {Components(subDir)}
                           ELSE st.devDirs,
               calls |-> Append(st.calls, call),
               status |-> IF failed THEN "failed" ELSE "ok",
               segment |-> IF failed THEN subDir ELSE <<>>]
  IN IF failed \/ cut = npos THEN next
     ELSE WalkFrom(dirName, cut + 1, wd, fl, dn, next)

DirectoryCreateRun(dirName, wd, ds, fl, dn, dd) ==
  LET st0 == [dirs |-> ds, devDirs |-> dd, calls |-> <<>>,
              status |-> "ok", segment |-> <<>>]
  IN IF dirName = <<>> THEN st0 ELSE WalkFrom(dirName, 0, wd, fl, dn, st0)

\* The cut positions of a walk none of whose calls fails.
RECURSIVE CutsFrom(_, _)
CutsFrom(dirName, pos) ==
  LET cut == NextCut(dirName, pos) IN
  IF cut = npos THEN <<cut>> ELSE <<cut>> \o CutsFrom(dirName, cut + 1)

Cuts(dirName) == IF dirName = <<>> THEN <<>> ELSE CutsFrom(dirName, 0)

History == [cwd |-> cwd, dirs |-> dirs, devDirs |-> devDirs]
Returned == last.op = "DirectoryCreate" /\ last.status = "ok"

DirectoryCreate ==
  \E r \in {DirectoryCreateRun(path, cwd, dirs, files, denied, devDirs)} :
  /\ dirs' = r.dirs
  /\ devDirs' = r.devDirs
  /\ last' = [op |-> "DirectoryCreate", status |-> r.status,
              segment |-> r.segment, calls |-> r.calls,
              exists |-> FALSE, buffer |-> <<>>]
  /\ pre' = History
  /\ prevOk' = Returned
  /\ UNCHANGED <<path, cwd, files, denied>>

----------------------------------------------------------------------------
(* condor2nav::FileExists *)

\* Variant of FileExistsRun whose local check is met by a directory too.
FileExistsRunAnyEntry(fileName, wd, ds, fl) ==
  IF IsActiveSync(fileName)
  THEN [calls |-> <<[backend |-> "remote", arg |-> fileName,
                     outcome |-> "FileExists"]>>,
        exists |-> ChannelFileExists(fileName)]
  ELSE [calls |-> <<[backend |-> "local", arg |-> fileName,
                     outcome |-> "ifstream"]>>,
        exists |-> fileName # <<>>
                     /\ Resolve(fileName, wd) \in ds \cup DOMAIN fl]

FileExistsRun(fileName, wd, ds, fl) ==
  IF IsActiveSync(fileName)
  THEN [calls |-> <<[backend |-> "remote", arg |-> fileName,
                     outcome |-> "FileExists"]>>,
        exists |-> ChannelFileExists(fileName)]
  ELSE [calls |-> <<[backend |-> "local", arg |-> fileName,
                     outcome |-> "ifstream"]>>,
        exists |-> IfstreamOpens(fileName, wd, ds, fl)]

FileExists ==
  \E r \in {FileExistsRun(path, cwd, dirs, files)} :
  /\ last' = [op |-> "FileExists", status |-> "ok", segment |-> <<>>,
              calls |-> r.calls, exists |-> r.exists, buffer |-> <<>>]
  /\ pre' = History
  /\ prevOk' = Returned
  /\ UNCHANGED <<path, cwd, dirs, files, denied, devDirs>>

----------------------------------------------------------------------------
(* condor2nav::FilePathSplit and condor2nav::CIStream::CIStream *)

FilePathSplit(filePath) ==
  LET pos == FindLastOf(filePath) IN
  IF pos # npos
  THEN [dir |-> Substr(filePath, 0, pos + 1), file |-> Substr(filePath, pos + 1, npos)]
  ELSE [dir |-> <<>>, file |-> filePath]

\* CStream::Type(): set by the CStream constructor from the path's prefix.
Type(fileName) == IF IsActiveSync(fileName) THEN "TYPE_ACTIVE_SYNC" ELSE "TYPE_LOCAL"

\* istream.cpp:45-64.  stream.rdbuf() into Buffer(): the bytes of the file that
\* opened.  The throw of line 58 leaves before line 62 restores the directory.
CIStreamLocal(fileName, wd, ds, fl) ==
  LET split == FilePathSplit(fileName)
      dirCurr == wd
      moved == IF split.dir # <<>> THEN SetCurrentDirectory(split.dir, wd, ds) ELSE wd
  IN IF ~IfstreamOpens(split.file, moved, ds, fl)
     THEN [status |-> "failed", buffer |-> <<>>, cwd |-> moved]
     ELSE [status |-> "ok", buffer |-> fl[Resolve(split.file, moved)],
           cwd |-> IF split.dir # <<>> THEN dirCurr ELSE moved]

CIStreamRun(fileName, wd, ds, fl) ==
  IF Type(fileName) = "TYPE_LOCAL" THEN CIStreamLocal(fileName, wd, ds, fl)
  ELSE LET r == ChannelRead(fileName)
       IN [status |-> IF r.ok THEN "ok" ELSE "failed", buffer |-> r.bytes, cwd |-> wd]

\* The working directory is followed down to MaxDepth components.
CIStream ==
  \E r \in {CIStreamRun(path, cwd, dirs, files)} :
  /\ Len(r.cwd) <= MaxDepth
  /\ cwd' = r.cwd
  /\ last' = [op |-> "CIStream", status |-> r.status, segment |-> <<>>,
              calls |-> <<>>, exists |-> FALSE, buffer |-> r.buffer]
  /\ pre' = History
  /\ prevOk' = Returned
  /\ UNCHANGED <<path, dirs, files, denied, devDirs>>

----------------------------------------------------------------------------
(* Initial states: a caller's path and a file system it may meet. *)

A == <<<<"a">>>>
AA == <<<<"a">>, <<"a">>>>
Share == <<UNC, <<"a">>, <<"a">>>>

InitDirs == {{Root}, {Root, A, Share}, {Root, A, AA, Share}}
InitDenied == {{}, {A}, {AA}}
FileBytes == (A :> <<1>>) @@ (AA :> <<2>>)
InitFiles(ds) ==
  LET fits == {l \in {A, AA} : l \notin ds /\ Parent(l) \in ds}
  IN {[l \in dom |-> FileBytes[l]] : dom \in {{}, fits}}

Init ==
  /\ path \in Paths
  /\ dirs \in InitDirs
  /\ cwd = Root
  /\ files \in InitFiles(dirs)
  /\ denied \in InitDenied
  /\ devDirs = {Root}
  /\ last = [op |-> "none", status |-> "ok", segment |-> <<>>, calls |-> <<>>,
             exists |-> FALSE, buffer |-> <<>>]
  /\ pre = [cwd |-> cwd, dirs |-> dirs, devDirs |-> devDirs]
  /\ prevOk = FALSE

Next == DirectoryCreate \/ FileExists \/ CIStream

Spec == Init /\ [][Next]_vars

----------------------------------------------------------------------------
(* Properties *)

Args(calls) == [i \in DOMAIN calls |-> calls[i].arg]
IsPrefix(a, b) == Len(a) <= Len(b) /\ SubSeq(b, 1, Len(a)) = a
LocalCalls == ~IsActiveSync(path)
CreatedNow == last.op = "DirectoryCreate"
HasDirPart == FilePathSplit(path).dir # <<>>
BackslashOnly == \A i \in 1..Len(path) : path[i] # FS
MadeByWalk == Resolve(path, cwd) \in dirs \ UNION InitDirs
NoLeadingSeparator == path # <<>> /\ ~IsSep(path[1])

\* The 1-based index of the n-th separator of p.
NthSep(p, n) ==
  CHOOSE j \in 1..Len(p) :
    IsSep(p[j]) /\ Cardinality({i \in 1..j : IsSep(p[i])}) = n
SepCount(p) == Cardinality({i \in 1..Len(p) : IsSep(p[i])})

\* C1: after the CIStream constructor has run on a Local path with a non-empty
\* directory part, returning a buffer or throwing, the working directory is
\* the one from before the call.
WorkingDirectoryRestored ==
  (last.op = "CIStream" /\ Type(path) = "TYPE_LOCAL" /\ HasDirPart)
    => cwd = pre.cwd

\* Length of the machine-and-share root of a path with two leading
\* backslashes; the whole path when it has no segment below the share.
ShareRootLen(p) ==
  LET machineEnd == FindFirstOf(p, 2)
      shareEnd == IF machineEnd = npos THEN npos ELSE FindFirstOf(p, machineEnd + 1)
  IN IF shareEnd = npos THEN Len(p) ELSE shareEnd

\* A network path that names a machine and a share: \\m\s and more.
NamesShare ==
  LET machineEnd == FindFirstOf(path, 2) IN
  /\ At(path, 0) = BS /\ At(path, 1) = BS
  /\ machineEnd # npos /\ machineEnd > 2
  /\ machineEnd + 1 < Len(path) /\ ~IsSep(At(path, machineEnd + 1))

\* C2: on a path with two leading separators no create-directory call is made
\* for the machine root, the share root or anything shorter.  Stated for the
\* paths that name both a machine and a share, written with backslashes.
ShareRootNeverCreated ==
  (CreatedNow /\ BackslashOnly /\ NamesShare)
    => \A i \in DOMAIN last.calls : Len(last.calls[i].arg) > ShareRootLen(path)

PrefixesThroughSeparators(p) ==
  [n \in 1..SepCount(p) |-> SubSeq(p, 1, NthSep(p, n))]
    \o (IF IsSep(p[Len(p)]) THEN <<>> ELSE <<p>>)

PrefixesBeforeSeparators(p) ==
  [n \in 1..SepCount(p) |-> SubSeq(p, 1, NthSep(p, n) - 1)] \o <<p>>

\* C3 as stated: on a non-empty Local path without leading separator a walk
\* that returns has made one call per separator for the prefix up to and
\* including it, then one for the full path unless it ends in a separator.
CreatesPrefixThroughEachSeparator ==
  (CreatedNow /\ NoLeadingSeparator /\ last.status = "ok")
    => Args(last.calls) = PrefixesThroughSeparators(path)

\* C3 as amended: the calls are, in order, one per separator for the prefix
\* that ends just before it, then always one for the full path; a walk that
\* throws has made an initial part of these calls.
CreatesPrefixBeforeEachSeparator ==
  (CreatedNow /\ NoLeadingSeparator)
    => /\ IsPrefix(Args(last.calls), PrefixesBeforeSeparators(path))
       /\ last.status = "ok" => Args(last.calls) = PrefixesBeforeSeparators(path)

CreatesPrefixBeforeEachSeparatorWitness ==
  /\ CreatedNow /\ NoLeadingSeparator /\ last.status = "ok"
  /\ IsSep(path[Len(path)])
  /\ SepCount(path) >= 2
  /\ \E i \in DOMAIN last.calls : last.calls[i].outcome = "ERROR_SUCCESS"

\* C4: DirectoryCreate and FileExists send every backend call to the channel
\* when the path starts with one separator followed by a non-separator, also
\* when it is two characters long, and to the local file system otherwise.
\* Stated for the paths written with backslashes.
SingleSeparatorGoesRemote ==
  (last.op \in {"DirectoryCreate", "FileExists"} /\ BackslashOnly)
    => LET device == Len(path) >= 2 /\ At(path, 0) = BS /\ At(path, 1) # BS
       IN \A i \in DOMAIN last.calls :
            last.calls[i].backend = IF device THEN "remote" ELSE "local"

\* C5: a DirectoryCreate that directly follows a DirectoryCreate of the same
\* path that returned, returns too and leaves the existing directories as
\* they were.
SecondCreateChangesNothing ==
  (CreatedNow /\ prevOk)
    => last.status = "ok" /\ dirs = pre.dirs /\ devDirs = pre.devDirs

SecondCreateChangesNothingWitness ==
  /\ CreatedNow /\ prevOk /\ LocalCalls
  /\ Len(last.calls) >= 2
  /\ dirs \notin InitDirs

\* C6: the CIStream constructor on a Local path returns the bytes of the file
\* the path names, resolved against the working directory of the call, or
\* throws; it throws whenever no file is there.  Stated for the relative
\* paths written with backslashes.
ReadsTheNamedFile ==
  (last.op = "CIStream" /\ Type(path) = "TYPE_LOCAL"
     /\ BackslashOnly /\ NoLeadingSeparator)
    => IF IfstreamOpens(path, pre.cwd, dirs, files)
       THEN last.status = "ok" => last.buffer = files[Resolve(path, pre.cwd)]
       ELSE last.status = "failed"

\* C7 as stated: FileExists directly after a DirectoryCreate of the same Local
\* path that returned is true, where the full path is a directory the walk
\* made.
ExistsAfterCreate ==
  (last.op = "FileExists" /\ prevOk /\ LocalCalls /\ NoLeadingSeparator
     /\ MadeByWalk)
    => last.exists

\* C7 as amended: FileExists directly after a DirectoryCreate of the same
\* Local path that returned is false whenever the full path is a directory.
DirectoryIsNoFile ==
  (last.op = "FileExists" /\ prevOk /\ LocalCalls
     /\ Resolve(path, cwd) \in dirs)
    => ~last.exists

DirectoryIsNoFileWitness ==
  /\ last.op = "FileExists" /\ prevOk /\ LocalCalls
  /\ NoLeadingSeparator
  /\ MadeByWalk

\* The paths p turns into when some of its backslashes become forward slashes.
SlashVariants(p) ==
  {q \in [1..Len(p) -> Alphabet] :
     \A i \in 1..Len(p) : q[i] = p[i] \/ (p[i] = BS /\ q[i] = FS)}

\* C8: writing forward slashes for backslashes changes neither the backend
\* DirectoryCreate and FileExists choose nor where DirectoryCreate cuts.
\* Stated for the device paths, the network paths that name a share and the
\* paths without leading separator, each written with backslashes.
SlashesInterchangeable ==
  (last.op \in {"DirectoryCreate", "FileExists"} /\ BackslashOnly
     /\ (IsActiveSync(path) \/ NamesShare \/ NoLeadingSeparator))
    => \A q \in SlashVariants(path) :
         /\ IsActiveSync(q) = IsActiveSync(path)
         /\ Cuts(q) = Cuts(path)

\* C9: off the channel, a create-directory call that fails other than with
\* "already exists" is the last call of the walk, the walk throws naming that
\* call's prefix, and what the walk created before stays.
FailureAbortsWalk ==
  (CreatedNow /\ LocalCalls)
    => \A i \in DOMAIN last.calls :
         last.calls[i].outcome \notin {"ERROR_SUCCESS", "ERROR_ALREADY_EXISTS"}
           => /\ i = Len(last.calls)
              /\ last.status = "failed"
              /\ last.segment = last.calls[i].arg
              /\ \A j \in 1..(i - 1) :
                   last.calls[j].outcome = "ERROR_SUCCESS"
                     => Resolve(last.calls[j].arg, cwd) \in dirs \ pre.dirs

FailureAbortsWalkWitness ==
  /\ CreatedNow /\ LocalCalls /\ last.status = "failed"
  /\ Len(last.calls) >= 2
  /\ last.calls[1].outcome = "ERROR_SUCCESS"

\* C10: every create-directory argument is a non-empty prefix of the path,
\* longer than the one before; a walk that returns ends with the full path;
\* there are at most Len(path) calls.  Stated for the paths written with
\* backslashes.
ArgumentsGrowToFullPath ==
  (CreatedNow /\ BackslashOnly)
    => /\ \A i \in DOMAIN last.calls :
            /\ last.calls[i].arg # <<>>
            /\ IsPrefix(last.calls[i].arg, path)
            /\ i > 1 => Len(last.calls[i].arg) > Len(last.calls[i - 1].arg)
       /\ Len(last.calls) <= Len(path)
       /\ (last.status = "ok" /\ path # <<>>)
            => last.calls[Len(last.calls)].arg = path

====
